---- MODULE Spec2Model ----
(***************************************************************************)
(* terraform-provider-pastebin: the provider's Configure, the paste        *)
(* resource's Configure / Create / Read / Update / Delete / ImportState    *)
(* and the planning the resource schema drives, as a state machine.        *)
(*                                                                         *)
(* The pastebin client library and the remote server are the environment:  *)
(* a client call either fails or succeeds, chosen nondeterministically.    *)
(***************************************************************************)
EXTENDS Integers, Sequences, FiniteSets, TLC

VARIABLES
    published,  \* provider.ConfigureResponse: ResourceData and DataSourceData
    rData,      \* PasteResource.providerData
    dData,      \* PasteDataSource.providerData
    tfstate,    \* the resource's entry in Terraform state
    remote,     \* ids of the pastes the server holds
    nextId,     \* number of the next paste the server hands out
    resp        \* what the last call did: diagnostics, client calls, request

vars == <<published, rData, dData, tfstate, remote, nextId, resp>>

\* ---- bounds

\* The server hands out at most this many pastes in one run.
MaxPastes == 2

\* ---- framework values: types.String, types.Bool

\* types.String: null, unknown (a computed value not yet planned), or a known
\* Go string. ValueString() of a null or unknown value is "".
StringNull == [state |-> "null", value |-> ""]
StringUnknown == [state |-> "unknown", value |-> ""]
StringValue(s) == [state |-> "known", value |-> s]
ValueString(v) == IF v.state = "known" THEN v.value ELSE ""

\* types.Bool: null, unknown, or a known Go bool. ValueBool() of a null or
\* unknown value is false.
BoolNull == [state |-> "null", value |-> FALSE]
BoolValue(b) == [state |-> "known", value |-> b]
ValueBool(v) == IF v.state = "known" THEN v.value ELSE FALSE

IsNull(v) == v.state = "null"
IsUnknown(v) == v.state = "unknown"

\* A nil *ProviderData, and a value of another type handed to Configure.
Nil == [kind |-> "nil"]
WrongType == [kind |-> "string", value |-> "invalid"]

\* No resource at this address in Terraform state.
Absent == [present |-> FALSE]

\* ---- net/url

\* Hosts url.Parse rejects (the provider test's "invalid URL with spaces").
InvalidURLs == {"ht tp://invalid url"}

\* url.Parse: an error, or the URL value whose String() is the text parsed.
UrlParse(s) ==
    IF s \in InvalidURLs
    THEN [err |-> TRUE]
    ELSE [err |-> FALSE, url |-> [String |-> s]]

\* The text of the error url.Parse returns for s.
UrlParseError(s) ==
    "parse \"" \o s \o "\": first path segment in URL cannot contain colon"

\* ---- what a call leaves behind

\* The response of a handler: its error diagnostics (summaries, in order), the
\* client calls it made (in order), whether it panicked, and its request.
\* `details` holds the detail text of the diagnostics that embed an error.
Response(op, diags, calls, req) ==
    [op |-> op, diags |-> diags, details |-> <<>>, calls |-> calls,
     panic |-> FALSE, req |-> req]

ResponseWithDetails(op, diags, details, calls, req) ==
    [op |-> op, diags |-> diags, details |-> details, calls |-> calls,
     panic |-> FALSE, req |-> req]

\* A handler that dereferenced a nil providerData: the plugin process dies
\* before any diagnostic is returned or any state is written.
Panic(op, calls, req) ==
    [op |-> op, diags |-> <<>>, details |-> <<>>, calls |-> calls,
     panic |-> TRUE, req |-> req]

HasError(r) == Len(r.diags) > 0

\* ---- PastebinProvider

\* The version New() was given.
ProviderVersion == "test"

\* types.Map of strings: null, or known with elements that may be null.
MapNull == [state |-> "null", elements |-> {}]
MapValue(elems) == [state |-> "known", elements |-> elems]

\* Map.ElementsAs(ctx, &map[string]string, false): a null element cannot be
\* held by a Go string, and is reported as an error diagnostic.
ElementsAsError(m) == \E e \in m.elements : IsNull(e.v)
ElementsAs(m) == {<<e.k, ValueString(e.v)>> : e \in m.elements}

\* host, username, password: the environment variable, overridden by the
\* configuration value whenever that one is not null.
\* Mutant: an empty configured host falls back to the environment.
ResolveHostSkippingEmpty(cfg, env) ==
    IF ValueString(cfg.Host) # "" THEN ValueString(cfg.Host) ELSE env.PASTEBIN_HOST
ResolveHost(cfg, env) ==
    IF ~IsNull(cfg.Host) THEN ValueString(cfg.Host) ELSE env.PASTEBIN_HOST
\* Mutant: the environment variable wins over the configured username.
ResolveUsernameEnvFirst(cfg, env) ==
    IF env.PASTEBIN_USERNAME # "" THEN env.PASTEBIN_USERNAME ELSE ValueString(cfg.Username)
ResolveUsername(cfg, env) ==
    IF ~IsNull(cfg.Username) THEN ValueString(cfg.Username) ELSE env.PASTEBIN_USERNAME
ResolvePassword(cfg, env) ==
    IF ~IsNull(cfg.Password) THEN ValueString(cfg.Password) ELSE env.PASTEBIN_PASSWORD
ResolveUserAgent(cfg) ==
    IF ~IsNull(cfg.UserAgent)
    THEN ValueString(cfg.UserAgent)
    ELSE "terraform-provider-pastebin/" \o ProviderVersion

\* pastebin.NewClient(*hostURL, clientOptions...): in-memory construction.
NewClient(hostURL, cfg, env) ==
    LET username == ResolveUsername(cfg, env)
        password == ResolvePassword(cfg, env)
    IN  [BaseURL |-> hostURL,
         UserAgent |-> ResolveUserAgent(cfg),
         BasicAuth |-> IF username # "" \/ password # ""
                       THEN <<username, password>> ELSE <<>>,
         InsecureSkipVerify |-> ~IsNull(cfg.SkipTLSVerify) /\ ValueBool(cfg.SkipTLSVerify),
         Headers |-> IF IsNull(cfg.ExtraHeaders) THEN {} ELSE ElementsAs(cfg.ExtraHeaders)]

\* The address of the one ProviderData a Configure call allocates.
ProviderDataAddr == "pd0"

\* Mutant: the ProviderData keeps empty expire and formatter defaults.
NewProviderDataKeepingEmpty(client, cfg) ==
    [kind |-> "ProviderData",
     addr |-> ProviderDataAddr,
     Client |-> client,
     Expire |-> ValueString(cfg.Expire),
     Formatter |-> ValueString(cfg.Formatter),
     GZip |-> ValueBool(cfg.GZip),
     OpenDiscussion |-> ValueBool(cfg.OpenDiscussion),
     BurnAfterReading |-> ValueBool(cfg.BurnAfterReading)]

\* &ProviderData{...}, then "Set defaults if not specified".
NewProviderData(client, cfg) ==
    [kind |-> "ProviderData",
     addr |-> ProviderDataAddr,
     Client |-> client,
     Expire |-> IF ValueString(cfg.Expire) = "" THEN "1week" ELSE ValueString(cfg.Expire),
     Formatter |-> IF ValueString(cfg.Formatter) = "" THEN "plaintext" ELSE ValueString(cfg.Formatter),
     GZip |-> ValueBool(cfg.GZip),
     OpenDiscussion |-> ValueBool(cfg.OpenDiscussion),
     BurnAfterReading |-> ValueBool(cfg.BurnAfterReading)]

\* Mutant: the ProviderData is published before the error is reported.
FailedAfterPublishing(summary) ==
    [diags |-> <<summary>>,
     data |-> [kind |-> "ProviderData", addr |-> ProviderDataAddr]]
\* A failing path of Configure: one error diagnostic, nothing published.
Failed(summary) == [diags |-> <<summary>>, data |-> Nil]

\* Mutant: the empty-host guard left out.
HostMissingUnchecked(host) == FALSE
\* The "Unknown Pastebin Host" guard.
HostMissing(host) == host = ""

\* Mutant: the host is handed to the client without the url.Parse check.
ProviderConfigureOutcomeHostUnparsed(cfg, env, decodeOK) ==
    IF ~decodeOK
    THEN Failed("Value Conversion Error")
    ELSE LET host == ResolveHost(cfg, env) IN
         IF HostMissing(host)
         THEN Failed("Unknown Pastebin Host")
         ELSE IF ~IsNull(cfg.ExtraHeaders) /\ ElementsAsError(cfg.ExtraHeaders)
         THEN Failed("Value Conversion Error")
         ELSE [diags |-> <<>>,
               data |-> NewProviderData(NewClient([String |-> host], cfg, env), cfg)]

\* PastebinProvider.Configure, as a function of its request: the error
\* diagnostics it adds and the ProviderData it publishes (Nil: none).
ProviderConfigureOutcome(cfg, env, decodeOK) ==
    IF ~decodeOK
    THEN Failed("Value Conversion Error")
    ELSE LET host == ResolveHost(cfg, env) IN
         IF HostMissing(host)
         THEN Failed("Unknown Pastebin Host")
         ELSE IF UrlParse(host).err
         THEN Failed("Invalid Pastebin Host")
         ELSE IF ~IsNull(cfg.ExtraHeaders) /\ ElementsAsError(cfg.ExtraHeaders)
         THEN Failed("Value Conversion Error")
         ELSE [diags |-> <<>>,
               data |-> NewProviderData(NewClient(UrlParse(host).url, cfg, env), cfg)]

\* Mutant: data sources are handed a copy of the ProviderData.
PublishedCopy(data) ==
    [called |-> TRUE, ResourceData |-> data,
     DataSourceData |-> IF data = Nil THEN Nil ELSE [data EXCEPT !.addr = "pd1"]]

\* resp.DataSourceData = providerData; resp.ResourceData = providerData: what
\* the response holds when Configure returns (both nil on a failing path).
Published(data) ==
    [called |-> TRUE, ResourceData |-> data, DataSourceData |-> data]

\* The framework configures a provider instance once, before it hands
\* ResourceData / DataSourceData to the resources and data sources.
ProviderConfigure(cfg, env, decodeOK) ==
    LET out == ProviderConfigureOutcome(cfg, env, decodeOK) IN
    /\ ~published.called
    /\ published' = Published(out.data)
    /\ resp' = Response("ProviderConfigure", out.diags, <<>>,
                        [config |-> cfg, env |-> env, decodeOK |-> decodeOK])
    /\ UNCHANGED <<rData, dData, tfstate, remote, nextId>>

\* ---- PasteResource.Configure

\* Mutant: whatever is given is stored, its type unchecked.
ResourceConfigureDataUnchecked(old, given) ==
    IF given = Nil THEN old ELSE given

\* The providerData field after Configure(req): unchanged for nil and for a
\* value that is no *ProviderData, the value itself otherwise.
ResourceConfigureData(old, given) ==
    IF given = Nil THEN old
    ELSE IF given.kind # "ProviderData" THEN old
    ELSE given

ResourceConfigureDiags(given) ==
    IF given = Nil THEN <<>>
    ELSE IF given.kind # "ProviderData" THEN <<"Unexpected Resource Configure Type">>
    ELSE <<>>

ResourceConfigure(given) ==
    /\ rData' = ResourceConfigureData(rData, given)
    /\ resp' = Response("ResourceConfigure", ResourceConfigureDiags(given), <<>>,
                        [ProviderData |-> given])
    /\ UNCHANGED <<published, dData, tfstate, remote, nextId>>

\* ---- PasteDataSource.Configure

\* The providerData field after Configure(req): unchanged for nil and for a
\* value that is no *ProviderData, the value itself otherwise.
DataSourceConfigureData(old, given) ==
    IF given = Nil THEN old
    ELSE IF given.kind # "ProviderData" THEN old
    ELSE given

\* Mutant: nil provider data is reported as an error.
DataSourceConfigureDiagsRejectingNil(given) ==
    IF given = Nil THEN <<"Unexpected Data Source Configure Type">>
    ELSE IF given.kind # "ProviderData" THEN <<"Unexpected Data Source Configure Type">>
    ELSE <<>>

DataSourceConfigureDiags(given) ==
    IF given = Nil THEN <<>>
    ELSE IF given.kind # "ProviderData" THEN <<"Unexpected Data Source Configure Type">>
    ELSE <<>>

DataSourceConfigure(given) ==
    /\ dData' = DataSourceConfigureData(dData, given)
    /\ resp' = Response("DataSourceConfigure", DataSourceConfigureDiags(given), <<>>,
                        [ProviderData |-> given])
    /\ UNCHANGED <<published, rData, tfstate, remote, nextId>>

\* ---- PasteResource.Schema

NoDefault == [has |-> FALSE]
StaticString(s) == [has |-> TRUE, value |-> StringValue(s)]
StaticBool(b) == [has |-> TRUE, value |-> BoolValue(b)]

Attribute(type, required, optional, computed, sensitive, default, replace, useState) ==
    [Type |-> type, Required |-> required, Optional |-> optional,
     Computed |-> computed, Sensitive |-> sensitive, Default |-> default,
     RequiresReplace |-> replace, UseStateForUnknown |-> useState]

\* Mutant: the resource's password is not marked sensitive.
ResourceSchemaPasswordInClear ==
    [id |-> Attribute("string", FALSE, FALSE, TRUE, FALSE, NoDefault, FALSE, TRUE),
     content |-> Attribute("string", TRUE, FALSE, FALSE, FALSE, NoDefault, TRUE, FALSE),
     attachment_name |-> Attribute("string", FALSE, TRUE, FALSE, FALSE, NoDefault, TRUE, FALSE),
     formatter |-> Attribute("string", FALSE, TRUE, TRUE, FALSE, StaticString("plaintext"), TRUE, FALSE),
     expire |-> Attribute("string", FALSE, TRUE, TRUE, FALSE, StaticString("1week"), TRUE, FALSE),
     password |-> Attribute("string", FALSE, TRUE, FALSE, FALSE, NoDefault, TRUE, FALSE),
     open_discussion |-> Attribute("bool", FALSE, TRUE, TRUE, FALSE, StaticBool(FALSE), TRUE, FALSE),
     burn_after_reading |-> Attribute("bool", FALSE, TRUE, TRUE, FALSE, StaticBool(FALSE), TRUE, FALSE),
     gzip |-> Attribute("bool", FALSE, TRUE, TRUE, FALSE, StaticBool(TRUE), TRUE, FALSE),
     url |-> Attribute("string", FALSE, FALSE, TRUE, FALSE, NoDefault, FALSE, TRUE),
     delete_token |-> Attribute("string", FALSE, FALSE, TRUE, TRUE, NoDefault, FALSE, TRUE)]

\* The attributes of resource "paste", by tfsdk name.
ResourceSchema ==
    [id |-> Attribute("string", FALSE, FALSE, TRUE, FALSE, NoDefault, FALSE, TRUE),
     content |-> Attribute("string", TRUE, FALSE, FALSE, FALSE, NoDefault, TRUE, FALSE),
     attachment_name |-> Attribute("string", FALSE, TRUE, FALSE, FALSE, NoDefault, TRUE, FALSE),
     formatter |-> Attribute("string", FALSE, TRUE, TRUE, FALSE, StaticString("plaintext"), TRUE, FALSE),
     expire |-> Attribute("string", FALSE, TRUE, TRUE, FALSE, StaticString("1week"), TRUE, FALSE),
     password |-> Attribute("string", FALSE, TRUE, FALSE, TRUE, NoDefault, TRUE, FALSE),
     open_discussion |-> Attribute("bool", FALSE, TRUE, TRUE, FALSE, StaticBool(FALSE), TRUE, FALSE),
     burn_after_reading |-> Attribute("bool", FALSE, TRUE, TRUE, FALSE, StaticBool(FALSE), TRUE, FALSE),
     gzip |-> Attribute("bool", FALSE, TRUE, TRUE, FALSE, StaticBool(TRUE), TRUE, FALSE),
     url |-> Attribute("string", FALSE, FALSE, TRUE, FALSE, NoDefault, FALSE, TRUE),
     delete_token |-> Attribute("string", FALSE, FALSE, TRUE, TRUE, NoDefault, FALSE, TRUE)]

ResourceAttributes == DOMAIN ResourceSchema

\* The attributes a configuration may set, and the options among them that
\* Create resolves against the provider defaults.
InputAttributes ==
    {a \in ResourceAttributes : ResourceSchema[a].Required \/ ResourceSchema[a].Optional}
OptionAttributes ==
    {"formatter", "expire", "gzip", "open_discussion", "burn_after_reading"}

TypedNull(a) == IF ResourceSchema[a].Type = "bool" THEN BoolNull ELSE StringNull

\* PasteResourceModel{}: every attribute null.
NullModel == [a \in ResourceAttributes |-> TypedNull(a)]

\* Mutant: the schema declares no Default.
SchemaDefaultMissing(a) == NoDefault
\* The default the schema gives attribute a.
SchemaDefault(a) == ResourceSchema[a].Default

\* The framework's planned value of one attribute: the configured value; for
\* a null configuration the schema Default when there is one; for a computed
\* attribute without default the prior state's value (UseStateForUnknown) or
\* unknown; null otherwise.
PlanAttribute(a, cfg, prior) ==
    IF ~IsNull(cfg[a]) THEN cfg[a]
    ELSE IF SchemaDefault(a).has THEN SchemaDefault(a).value
    ELSE IF ResourceSchema[a].Computed
         THEN IF ResourceSchema[a].UseStateForUnknown /\ prior.present
                 /\ ~IsNull(prior.data[a])
              THEN prior.data[a]
              ELSE StringUnknown
    ELSE cfg[a]

\* The plan the framework hands to Create / Update for a configuration.
PlanFromConfig(cfg, prior) ==
    [a \in ResourceAttributes |-> PlanAttribute(a, cfg, prior)]

\* The attributes whose planned value differs from the prior state.
ChangedAttributes(plan, prior) ==
    {a \in ResourceAttributes : plan[a] # prior.data[a]}

\* Mutant: gzip declared without the RequiresReplace plan modifier.
ReplaceAttributesButGZip ==
    {a \in ResourceAttributes : ResourceSchema[a].RequiresReplace} \ {"gzip"}
\* The attributes whose change forces replacement (RequiresReplace).
ReplaceAttributes == {a \in ResourceAttributes : ResourceSchema[a].RequiresReplace}

\* What the plan asks for: nothing, replacement (destroy, then create) when a
\* changed attribute requires it, an in-place update otherwise.
PlannedAction(changed) ==
    IF changed = {} THEN "noop"
    ELSE IF changed \cap ReplaceAttributes # {} THEN "replace"
    ELSE "update"

\* ---- the pastebin client and the server behind it

\* The id, URL and delete token the server gives its n-th paste.
PasteIDOf(n) == "p" \o ToString(n)
PasteURLOf(client, n) == client.BaseURL.String \o "/?" \o PasteIDOf(n) \o "#key"
DeleteTokenOf(n) == "token" \o ToString(n)

\* Client.CreatePaste succeeded: the result, and the paste the server now holds.
CreatePasteResult(client, n) ==
    [PasteID |-> PasteIDOf(n),
     PasteURL |-> [String |-> PasteURLOf(client, n)],
     DeleteToken |-> DeleteTokenOf(n)]

StoredPaste(result) == [id |-> result.PasteID, url |-> result.PasteURL.String]

\* The pastes a URL addresses.
PastesAt(u) == {p \in remote : p.url = u.String}

\* Client.ShowPaste can succeed only for a paste the server holds; a paste
\* marked burn-after-reading (`burn`) is gone once a confirmed read of it has
\* succeeded.
ShowPasteCanSucceed(u) == PastesAt(u) # {}
RemoteAfterShow(u, options, ok, burn) ==
    IF ok /\ options.ConfirmBurn /\ burn
    THEN remote \ PastesAt(u)
    ELSE remote

\* ---- PasteResource.Create

\* "Use provider defaults if not specified"
EffectiveFormatter(data, pd) ==
    IF ValueString(data.formatter) = "" THEN pd.Formatter ELSE ValueString(data.formatter)
EffectiveExpire(data, pd) ==
    IF ValueString(data.expire) = "" THEN pd.Expire ELSE ValueString(data.expire)
\* Mutant: the fallback forgotten, the zero value of an unset gzip is used.
EffectiveGZipZeroValue(data, pd) == ValueBool(data.gzip)
EffectiveGZip(data, pd) ==
    IF IsNull(data.gzip) THEN pd.GZip ELSE ValueBool(data.gzip)
EffectiveOpenDiscussion(data, pd) ==
    IF IsNull(data.open_discussion) THEN pd.OpenDiscussion ELSE ValueBool(data.open_discussion)
EffectiveBurnAfterReading(data, pd) ==
    IF IsNull(data.burn_after_reading) THEN pd.BurnAfterReading
    ELSE ValueBool(data.burn_after_reading)

\* Mutant: the paste is compressed whatever the flag says.
CompressionAlwaysGZip(gzip) == "GZip"
\* pastebin.CompressionAlgorithmGZip / CompressionAlgorithmNone
Compression(gzip) == IF gzip THEN "GZip" ELSE "None"

\* pastebin.CreatePasteOptions{...}
CreatePasteOptions(data, pd) ==
    [AttachmentName |-> ValueString(data.attachment_name),
     Formatter |-> EffectiveFormatter(data, pd),
     Expire |-> EffectiveExpire(data, pd),
     OpenDiscussion |-> EffectiveOpenDiscussion(data, pd),
     BurnAfterReading |-> EffectiveBurnAfterReading(data, pd),
     Compress |-> Compression(EffectiveGZip(data, pd)),
     Password |-> ValueString(data.password)]

\* "Save data into Terraform state": the model Create writes on success.
\* Mutant: only the computed attributes are written, the options stay as
\* the plan had them.
CreatedStateKeepingPlan(data, pd, result) ==
    [data EXCEPT
        !.id = StringValue(result.PasteID),
        !.url = StringValue(result.PasteURL.String),
        !.delete_token = StringValue(result.DeleteToken)]

CreatedState(data, pd, result) ==
    [data EXCEPT
        !.id = StringValue(result.PasteID),
        !.url = StringValue(result.PasteURL.String),
        !.delete_token = StringValue(result.DeleteToken),
        !.formatter = StringValue(EffectiveFormatter(data, pd)),
        !.expire = StringValue(EffectiveExpire(data, pd)),
        !.gzip = BoolValue(EffectiveGZip(data, pd)),
        !.open_discussion = BoolValue(EffectiveOpenDiscussion(data, pd)),
        !.burn_after_reading = BoolValue(EffectiveBurnAfterReading(data, pd))]

\* The error a failing Client.CreatePaste returns.
CreatePasteError == "unexpected status 500"

\* The call Create makes, with what the client returned: an error, or the
\* result for the paste the server stored.
CreatePasteCall(data, pd, ok) ==
    [fn |-> "CreatePaste", content |-> ValueString(data.content),
     options |-> CreatePasteOptions(data, pd), err |-> ~ok,
     error |-> IF ok THEN "" ELSE CreatePasteError,
     result |-> IF ok THEN CreatePasteResult(pd.Client, nextId) ELSE Nil]

\* Mutant: the diagnostic leaves the client's error out.
CreateErrorDetailWithoutError(error) == "Unable to create paste"

\* Mutant: a failed call is made a second time.
CreateCallsRetrying(call) == IF call.err THEN <<call, call>> ELSE <<call>>

\* The client calls of one Create: CreatePaste, once, whatever it returns.
CreateCalls(call) == <<call>>

\* The detail of Create's "Client Error" diagnostic.
CreateErrorDetail(error) == "Unable to create paste, got error: " \o error

\* Mutant: Create writes the formatter it used back as the default.
ProviderDataAfterCreateKeepingFormatter(pd, data) ==
    [pd EXCEPT !.Formatter = EffectiveFormatter(data, pd)]

\* Create only reads the fields of the ProviderData it was configured with.
ProviderDataAfterCreate(pd, data) == pd

\* PasteResource.Create on plan `data`; `config` is the configuration the
\* plan was made from (NoConfig when the handler is handed a plan directly),
\* `ok` whether the client's create call succeeds. The framework calls Create
\* for a resource that is not in state.
Create(data, config, ok) ==
    LET req == [plan |-> data, config |-> config]
        call == CreatePasteCall(data, rData, ok)
        result == call.result
    IN
    /\ tfstate = Absent
    /\ IF rData = Nil
       THEN /\ resp' = Panic("Create", <<>>, req)
            /\ UNCHANGED <<tfstate, remote, nextId>>
       ELSE IF ~ok
       THEN /\ resp' = ResponseWithDetails("Create", <<"Client Error">>,
                                           <<CreateErrorDetail(call.error)>>,
                                           CreateCalls(call), req)
            /\ UNCHANGED <<tfstate, remote, nextId>>
       ELSE /\ nextId <= MaxPastes
            /\ resp' = Response("Create", <<>>, CreateCalls(call), req)
            /\ tfstate' = [present |-> TRUE, data |-> CreatedState(data, rData, result)]
            /\ remote' = remote \cup {StoredPaste(result)}
            /\ nextId' = nextId + 1
    /\ rData' = IF rData = Nil THEN rData ELSE ProviderDataAfterCreate(rData, data)
    /\ UNCHANGED <<published, dData>>

\* ---- PasteResource.Read

\* Mutant: the read confirms the burn of a burn-after-reading paste.
ReadOptionsConfirmingBurn(data) ==
    [Password |-> ValueString(data.password),
     ConfirmBurn |-> ValueBool(data.burn_after_reading)]
\* pastebin.ShowPasteOptions{...} of a resource Read.
ReadOptions(data) ==
    [Password |-> ValueString(data.password), ConfirmBurn |-> FALSE]

\* The error a failing Client.ShowPaste returns: the server does not hold
\* the paste, or the request itself failed.
ShowPasteError(u) ==
    IF PastesAt(u) = {} THEN "paste not found" ELSE "connection refused"

ShowPasteCall(u, options, ok) ==
    [fn |-> "ShowPaste", url |-> u, options |-> options, err |-> ~ok,
     error |-> IF ok THEN "" ELSE ShowPasteError(u)]

\* Mutant: a failed fetch is reported as a client error, the state is kept.
ReadAfterFetchReportsError(data, ok) ==
    IF ~ok
    THEN [diags |-> <<"Client Error">>, state |-> [present |-> TRUE, data |-> data]]
    ELSE [diags |-> <<>>, state |-> [present |-> TRUE, data |-> data]]
\* Mutant: a successful fetch does not carry content over from state.
ReadAfterFetchDropsContent(data, ok) ==
    IF ~ok
    THEN [diags |-> <<>>, state |-> Absent]
    ELSE [diags |-> <<>>,
          state |-> [present |-> TRUE, data |-> [data EXCEPT !.content = StringNull]]]
\* Mutant: a successful fetch refreshes the stored content in place.
ReadAfterFetchRefreshing(data, ok) ==
    IF ~ok
    THEN [diags |-> <<>>, state |-> Absent]
    ELSE [diags |-> <<>>,
          state |-> [present |-> TRUE,
                     data |-> [data EXCEPT !.content = StringValue("fetched")]]]
\* What Read does once the fetch has returned: on an error the resource is
\* removed from state and nothing is reported; otherwise the model read from
\* state is written back.
ReadAfterFetch(data, ok) ==
    IF ~ok
    THEN [diags |-> <<>>, state |-> Absent]
    ELSE [diags |-> <<>>, state |-> [present |-> TRUE, data |-> data]]

\* Mutant: without a stored URL, one is made up from the id.
ReadURLFromID(data) ==
    IF IsNull(data.url)
    THEN "https://example.com/?" \o ValueString(data.id) \o "#key"
    ELSE ValueString(data.url)

\* The text Read parses as the paste URL: the stored url attribute, the
\* empty string when it is null.
ReadURL(data) == ValueString(data.url)

\* PasteResource.Read of the resource in state; `ok` is whether the client's
\* fetch succeeds, `burn` whether the paste fetched is burn-after-reading.
Read(ok, burn) ==
    LET data == tfstate.data
        parsed == UrlParse(ReadURL(data))
        req == [state |-> data]
    IN
    /\ tfstate # Absent
    /\ IF parsed.err
       THEN /\ resp' = ResponseWithDetails("Read", <<"Client Error">>,
                    <<"Unable to parse paste URL: " \o UrlParseError(ReadURL(data))>>,
                    <<>>, req)
            /\ UNCHANGED <<tfstate, remote>>
       ELSE IF rData = Nil
       THEN /\ resp' = Panic("Read", <<>>, req)
            /\ UNCHANGED <<tfstate, remote>>
       ELSE LET options == ReadOptions(data)
                out == ReadAfterFetch(data, ok)
            IN  /\ ok => ShowPasteCanSucceed(parsed.url)
                /\ resp' = Response("Read", out.diags,
                                    <<ShowPasteCall(parsed.url, options, ok)>>, req)
                /\ tfstate' = out.state
                /\ remote' = RemoteAfterShow(parsed.url, options, ok, burn)
    /\ UNCHANGED <<published, rData, dData, nextId>>

\* ---- PasteResource.Update

\* Mutant: Update applies the plan in place and succeeds.
UpdateInPlace(prior, plan) ==
    [diags |-> <<>>, calls |-> <<>>, state |-> [present |-> TRUE, data |-> plan]]
\* Update's whole effect: one error diagnostic; the response state is the
\* prior state the framework put there.
UpdateOutcome(prior, plan) ==
    [diags |-> <<"Update Not Supported">>, calls |-> <<>>, state |-> prior]

Update(plan) ==
    LET out == UpdateOutcome(tfstate, plan) IN
    /\ resp' = Response("Update", out.diags, out.calls, [plan |-> plan])
    /\ tfstate' = out.state
    /\ UNCHANGED <<published, rData, dData, remote, nextId>>

\* ---- PasteResource.Delete

\* Mutant: the commented-out remote delete is made.
DeleteOutcomeCallingClient(data) ==
    [diags |-> <<>>,
     calls |-> <<[fn |-> "DeletePaste", id |-> ValueString(data.id),
                  token |-> ValueString(data.delete_token), err |-> FALSE]>>]
\* Delete reads the prior state and does nothing else.
DeleteOutcome(data) == [diags |-> <<>>, calls |-> <<>>]

\* The framework removes the resource from state when Delete returns without
\* an error diagnostic.
Delete ==
    LET out == DeleteOutcome(tfstate.data) IN
    /\ tfstate # Absent
    /\ resp' = Response("Delete", out.diags, out.calls, [state |-> tfstate.data])
    /\ tfstate' = IF Len(out.diags) > 0 THEN tfstate ELSE Absent
    /\ UNCHANGED <<published, rData, dData, remote, nextId>>

\* ---- PasteResource.ImportState

\* Mutant: the import also derives the paste URL from the identifier.
ImportedStateWithURL(id) ==
    [NullModel EXCEPT !.id = StringValue(id),
                      !.url = StringValue("https://example.com/?" \o id \o "#key")]

\* resource.ImportStatePassthroughID(ctx, path.Root("id"), req, resp): the
\* import identifier becomes attribute id of an otherwise null state.
ImportedState(id) == [NullModel EXCEPT !.id = StringValue(id)]

\* Terraform imports only to an address that holds no resource yet.
ImportState(id) ==
    /\ tfstate = Absent
    /\ resp' = Response("ImportState", <<>>, <<>>, [ID |-> id])
    /\ tfstate' = [present |-> TRUE, data |-> ImportedState(id)]
    /\ UNCHANGED <<published, rData, dData, remote, nextId>>

\* ---- planning a configuration against the resource in state

\* The framework plans `cfg` against the stored resource with the schema's
\* defaults and plan modifiers; nothing is changed yet.
Plan(cfg) ==
    LET changed == ChangedAttributes(PlanFromConfig(cfg, tfstate), tfstate) IN
    /\ tfstate # Absent
    /\ resp' = Response("Plan", <<>>, <<>>,
                        [inputsChanged |-> changed \cap InputAttributes # {},
                         action |-> PlannedAction(changed)])
    /\ UNCHANGED <<published, rData, dData, tfstate, remote, nextId>>

\* ---- PasteDataSource.Schema

\* The attributes of data source "paste", by tfsdk name.
DataSourceSchema ==
    [id |-> Attribute("string", FALSE, FALSE, TRUE, FALSE, NoDefault, FALSE, FALSE),
     url |-> Attribute("string", TRUE, FALSE, FALSE, FALSE, NoDefault, FALSE, FALSE),
     password |-> Attribute("string", FALSE, TRUE, FALSE, TRUE, NoDefault, FALSE, FALSE),
     confirm_burn |-> Attribute("bool", FALSE, TRUE, FALSE, FALSE, NoDefault, FALSE, FALSE),
     content |-> Attribute("string", FALSE, FALSE, TRUE, FALSE, NoDefault, FALSE, FALSE),
     attachment_name |-> Attribute("string", FALSE, FALSE, TRUE, FALSE, NoDefault, FALSE, FALSE),
     attachment_data |-> Attribute("string", FALSE, FALSE, TRUE, TRUE, NoDefault, FALSE, FALSE),
     mime_type |-> Attribute("string", FALSE, FALSE, TRUE, FALSE, NoDefault, FALSE, FALSE),
     comment_count |-> Attribute("int64", FALSE, FALSE, TRUE, FALSE, NoDefault, FALSE, FALSE)]

\* ---- the Schema handlers

\* The response of a Schema call: resp.Schema is part of it.
SchemaResponse(op, schema) ==
    [op |-> op, diags |-> <<>>, details |-> <<>>, calls |-> <<>>,
     panic |-> FALSE, req |-> [none |-> TRUE], schema |-> schema]

\* PasteResource.Schema and PasteDataSource.Schema: resp.Schema is assigned,
\* nothing else is touched.
ResourceSchemaCall ==
    /\ resp' = SchemaResponse("ResourceSchema", ResourceSchema)
    /\ UNCHANGED <<published, rData, dData, tfstate, remote, nextId>>

DataSourceSchemaCall ==
    /\ resp' = SchemaResponse("DataSourceSchema", DataSourceSchema)
    /\ UNCHANGED <<published, rData, dData, tfstate, remote, nextId>>

\* ---- PasteDataSource.Read

\* types.Int64: null, or known with a value.
Int64Null == [state |-> "null", value |-> 0]
Int64Value(n) == [state |-> "known", value |-> n]

\* PasteDataSourceModel with every attribute null.
DataSourceNullModel ==
    [id |-> StringNull, url |-> StringNull, password |-> StringNull,
     confirm_burn |-> BoolNull, content |-> StringNull,
     attachment_name |-> StringNull, attachment_data |-> StringNull,
     mime_type |-> StringNull, comment_count |-> Int64Null]

\* The alphabet of base64.StdEncoding, indexed from 1.
Base64Alphabet ==
    <<"A", "B", "C", "D", "E", "F", "G", "H", "I", "J", "K", "L", "M",
      "N", "O", "P", "Q", "R", "S", "T", "U", "V", "W", "X", "Y", "Z",
      "a", "b", "c", "d", "e", "f", "g", "h", "i", "j", "k", "l", "m",
      "n", "o", "p", "q", "r", "s", "t", "u", "v", "w", "x", "y", "z",
      "0", "1", "2", "3", "4", "5", "6", "7", "8", "9", "+", "/">>

Base64Char(sextet) == Base64Alphabet[sextet + 1]

\* base64.StdEncoding.EncodeToString(bytes): three bytes make four
\* characters, a last group of one or two bytes is padded with "=".
RECURSIVE EncodeToString(_)
EncodeToString(bytes) ==
    IF Len(bytes) = 0 THEN ""
    ELSE IF Len(bytes) = 1
    THEN Base64Char(bytes[1] \div 4) \o Base64Char((bytes[1] % 4) * 16) \o "=="
    ELSE IF Len(bytes) = 2
    THEN Base64Char(bytes[1] \div 4)
         \o Base64Char((bytes[1] % 4) * 16 + bytes[2] \div 16)
         \o Base64Char((bytes[2] % 16) * 4) \o "="
    ELSE Base64Char(bytes[1] \div 4)
         \o Base64Char((bytes[1] % 4) * 16 + bytes[2] \div 16)
         \o Base64Char((bytes[2] % 16) * 4 + bytes[3] \div 64)
         \o Base64Char(bytes[3] % 64)
         \o EncodeToString(SubSeq(bytes, 4, Len(bytes)))

\* pastebin.ShowPasteOptions{...} of a data-source Read.
DataSourceReadOptions(data) ==
    [Password |-> ValueString(data.password),
     ConfirmBurn |-> ValueBool(data.confirm_burn)]

\* What Client.ShowPaste returns for the paste `p` with the body `body`.
ShowPasteResult(p, body) ==
    [PasteID |-> p.id, CommentCount |-> body.CommentCount,
     Paste |-> [Data |-> body.Data, AttachmentName |-> body.AttachmentName,
                MimeType |-> body.MimeType, Attachement |-> body.Attachement]]

\* The call a data-source Read makes, with what the client returned.
DataSourceShowPasteCall(u, options, ok, result) ==
    [fn |-> "ShowPaste", url |-> u, options |-> options, err |-> ~ok,
     error |-> IF ok THEN "" ELSE ShowPasteError(u),
     result |-> IF ok THEN result ELSE Nil]

\* Mutant: the attachment attributes are set whatever the result holds.
DataSourceReadModelUnconditional(data, result) ==
    [data EXCEPT
        !.id = StringValue(result.PasteID),
        !.content = StringValue(result.Paste.Data),
        !.comment_count = Int64Value(result.CommentCount),
        !.attachment_name = StringValue(result.Paste.AttachmentName),
        !.mime_type = StringValue(result.Paste.MimeType),
        !.attachment_data = StringValue(EncodeToString(result.Paste.Attachement))]

\* "Map response to data source model": the attachment name and MIME type
\* are set only for a result that has an attachment name, the attachment
\* data only if that result also has attachment bytes.
DataSourceReadModel(data, result) ==
    [data EXCEPT
        !.id = StringValue(result.PasteID),
        !.content = StringValue(result.Paste.Data),
        !.comment_count = Int64Value(result.CommentCount),
        !.attachment_name =
            IF result.Paste.AttachmentName # ""
            THEN StringValue(result.Paste.AttachmentName) ELSE @,
        !.mime_type =
            IF result.Paste.AttachmentName # ""
            THEN StringValue(result.Paste.MimeType) ELSE @,
        !.attachment_data =
            IF result.Paste.AttachmentName # "" /\ Len(result.Paste.Attachement) > 0
            THEN StringValue(EncodeToString(result.Paste.Attachement)) ELSE @]

NotWritten == [written |-> FALSE]
Written(data) == [written |-> TRUE, data |-> data]

\* Mutant: a failed fetch still saves the model read from the configuration.
DataSourceReadAfterFetchSavingConfig(data, call) ==
    IF call.err
    THEN [diags |-> <<"Client Error">>,
          details |-> <<"Unable to read paste: " \o call.error>>,
          state |-> Written(data)]
    ELSE [diags |-> <<>>, details |-> <<>>,
          state |-> Written(DataSourceReadModel(data, call.result))]

\* What Read does once the fetch has returned: on an error a "Client Error"
\* and no state, otherwise the mapped model is saved.
DataSourceReadAfterFetch(data, call) ==
    IF call.err
    THEN [diags |-> <<"Client Error">>,
          details |-> <<"Unable to read paste: " \o call.error>>,
          state |-> NotWritten]
    ELSE [diags |-> <<>>, details |-> <<>>,
          state |-> Written(DataSourceReadModel(data, call.result))]

\* The response of a data-source Read: resp.State is part of it.
DataSourceReadResponse(diags, details, calls, panic, req, state) ==
    [op |-> "DataSourceRead", diags |-> diags, details |-> details,
     calls |-> calls, panic |-> panic, req |-> req, state |-> state]

\* PasteDataSource.Read of the configuration `data`; `ok` is whether the
\* client's fetch succeeds, `body` what the paste fetched holds and `burn`
\* whether it is burn-after-reading.
DataSourceRead(data, ok, body, burn) ==
    LET parsed == UrlParse(ValueString(data.url))
        req == [config |-> data]
    IN
    /\ IF parsed.err
       THEN /\ resp' = DataSourceReadResponse(<<"Client Error">>,
                    <<"Unable to parse paste URL: " \o UrlParseError(ValueString(data.url))>>,
                    <<>>, FALSE, req, NotWritten)
            /\ UNCHANGED remote
       ELSE IF dData = Nil
       THEN /\ resp' = DataSourceReadResponse(<<>>, <<>>, <<>>, TRUE, req, NotWritten)
            /\ UNCHANGED remote
       ELSE LET options == DataSourceReadOptions(data) IN
            /\ ok => ShowPasteCanSucceed(parsed.url)
            /\ \E p \in IF ok THEN PastesAt(parsed.url) ELSE {Nil} :
                 LET call == DataSourceShowPasteCall(parsed.url, options, ok,
                                 IF ok THEN ShowPasteResult(p, body) ELSE Nil)
                     out == DataSourceReadAfterFetch(data, call)
                 IN  resp' = DataSourceReadResponse(out.diags, out.details, <<call>>,
                                                    FALSE, req, out.state)
            /\ remote' = RemoteAfterShow(parsed.url, options, ok, burn)
    /\ UNCHANGED <<published, rData, dData, tfstate, nextId>>

\* ---- the server, on its own

\* A paste expires or is deleted upstream.
UpstreamRemove(p) ==
    /\ p \in remote
    /\ remote' = remote \ {p}
    /\ UNCHANGED <<published, rData, dData, tfstate, nextId, resp>>

\* ---- the requests the model draws from

\* Provider configuration with every attribute null.
NullProviderConfig ==
    [Host |-> StringNull, Username |-> StringNull, Password |-> StringNull,
     SkipTLSVerify |-> BoolNull, UserAgent |-> StringNull, ExtraHeaders |-> MapNull,
     Expire |-> StringNull, Formatter |-> StringNull, GZip |-> BoolNull,
     OpenDiscussion |-> BoolNull, BurnAfterReading |-> BoolNull]

ValidHost == "https://example.com"

\* Provider configurations: every way of giving (or not giving) the host
\* with no defaults set; and, under a valid host, each default set alone (to
\* a value, to the empty or false value) and all five set together.
HostConfigs ==
    {[NullProviderConfig EXCEPT !.Host = h] :
        h \in {StringNull, StringValue(""), StringValue(ValidHost),
               StringValue("ht tp://invalid url")}}
WithDefaults(f, e, g, o, b) ==
    [NullProviderConfig EXCEPT !.Host = StringValue(ValidHost),
                               !.Formatter = f, !.Expire = e, !.GZip = g,
                               !.OpenDiscussion = o, !.BurnAfterReading = b]
DefaultsConfigs ==
    {WithDefaults(f, StringNull, BoolNull, BoolNull, BoolNull) :
        f \in {StringValue(""), StringValue("markdown")}}
    \cup {WithDefaults(StringNull, e, BoolNull, BoolNull, BoolNull) :
        e \in {StringValue(""), StringValue("1day")}}
    \cup {WithDefaults(StringNull, StringNull, g, BoolNull, BoolNull) :
        g \in {BoolValue(TRUE), BoolValue(FALSE)}}
    \cup {WithDefaults(StringNull, StringNull, BoolNull, o, BoolNull) :
        o \in {BoolValue(TRUE), BoolValue(FALSE)}}
    \cup {WithDefaults(StringNull, StringNull, BoolNull, BoolNull, b) :
        b \in {BoolValue(TRUE), BoolValue(FALSE)}}
    \cup {WithDefaults(StringValue("markdown"), StringValue("1day"),
                       BoolValue(TRUE), BoolValue(TRUE), BoolValue(TRUE))}
ProviderConfigs == HostConfigs \cup DefaultsConfigs

\* The process environment: PASTEBIN_HOST unset (os.Getenv gives "") or set.
Environments ==
    {[PASTEBIN_HOST |-> h, PASTEBIN_USERNAME |-> "", PASTEBIN_PASSWORD |-> ""] :
        h \in {"", "https://env.example.com"}}

\* Provider configurations that vary where host, username and password come
\* from, the extra headers and skip_tls_verify, with no defaults set.
HeaderSettings ==
    {MapNull,
     MapValue({[k |-> "X-Team", v |-> StringValue("infra")]}),
     MapValue({[k |-> "X-Team", v |-> StringNull]})}
CredentialConfigs ==
    {[NullProviderConfig EXCEPT !.Host = h, !.Username = u, !.Password = pw,
                                !.ExtraHeaders = x, !.SkipTLSVerify = t] :
        h \in {StringNull, StringValue(""), StringValue(ValidHost),
               StringValue("ht tp://invalid url")},
        u \in {StringNull, StringValue(""), StringValue("cfguser")},
        pw \in {StringNull, StringValue("cfgpass")},
        x \in HeaderSettings,
        t \in {BoolNull, BoolValue(TRUE)}}

\* Environments with each of the three variables unset or set.
CredentialEnvironments ==
    [PASTEBIN_HOST : {"", "https://env.example.com", "ht tp://invalid url"},
     PASTEBIN_USERNAME : {"", "envuser"},
     PASTEBIN_PASSWORD : {"", "envpass"}]

\* What a paste on the server can hold: text only, a named attachment of
\* zero to four bytes, or attachment bytes without a name.
AttachmentBytes == {<<>>, <<77>>, <<77, 97>>, <<77, 97, 110>>, <<255, 254, 253, 0>>}
TextOnly ==
    [Data |-> "hello", CommentCount |-> 0, AttachmentName |-> "",
     MimeType |-> "", Attachement |-> <<>>]
PasteBodies ==
    {TextOnly}
    \cup {[Data |-> "", CommentCount |-> 3, AttachmentName |-> "a.txt",
           MimeType |-> IF b = <<>> THEN "" ELSE "text/plain", Attachement |-> b] :
            b \in AttachmentBytes}
    \cup {[Data |-> "", CommentCount |-> 3, AttachmentName |-> "",
           MimeType |-> "text/plain", Attachement |-> <<77, 97, 110>>]}

\* Data-source configurations: the URL of a paste the server holds, of one
\* it does not hold, or one that does not parse; confirm_burn unset or set.
DataSourceConfigs ==
    {[DataSourceNullModel EXCEPT !.url = StringValue(u), !.confirm_burn = c,
                                 !.password = pw] :
        u \in {p.url : p \in remote}
              \cup {"https://example.com/?gone#key", "ht tp://invalid url"},
        c \in {BoolNull, BoolValue(TRUE)},
        pw \in {StringNull}}

\* The provider requests of the specification in which a resource and a
\* data source share one ProviderData.
SharedProviderConfigs ==
    {NullProviderConfig,
     [NullProviderConfig EXCEPT !.Host = StringValue(ValidHost)],
     WithDefaults(StringValue("markdown"), StringValue("1day"),
                  BoolValue(TRUE), BoolValue(TRUE), BoolValue(TRUE))}
\* The values a resource configuration can give each option.
OptionSettings ==
    [formatter : {StringNull, StringValue(""), StringValue("markdown")},
     expire : {StringNull, StringValue(""), StringValue("1day")},
     gzip : {BoolNull, BoolValue(TRUE), BoolValue(FALSE)},
     open_discussion : {BoolNull, BoolValue(TRUE), BoolValue(FALSE)},
     burn_after_reading : {BoolNull, BoolValue(TRUE), BoolValue(FALSE)}]

WithOptions(o) ==
    [NullModel EXCEPT !.content = StringValue("hi"),
                      !.formatter = o.formatter, !.expire = o.expire,
                      !.gzip = o.gzip, !.open_discussion = o.open_discussion,
                      !.burn_after_reading = o.burn_after_reading]

\* The settings that leave every option unset, and that set every option.
NoOptions ==
    [formatter |-> StringNull, expire |-> StringNull, gzip |-> BoolNull,
     open_discussion |-> BoolNull, burn_after_reading |-> BoolNull]
AllOptions ==
    [formatter |-> StringValue("markdown"), expire |-> StringValue("1day"),
     gzip |-> BoolValue(FALSE), open_discussion |-> BoolValue(TRUE),
     burn_after_reading |-> BoolValue(TRUE)]

\* The resource requests of the specification in which a resource and a
\* data source share one ProviderData.
SharedConfigs ==
    {WithOptions(NoOptions), WithOptions(AllOptions),
     [NullModel EXCEPT !.content = StringValue("hi"),
                       !.attachment_name = StringValue("a.txt")]}

\* Resource configurations: content "hi" with one option varied over all its
\* values while the others are all unset or all set; and one each with other
\* content, an attachment name and a password.
Configs ==
    {WithOptions(o) : o \in {x \in OptionSettings :
        \E a \in OptionAttributes, base \in {NoOptions, AllOptions} :
            \A b \in OptionAttributes \ {a} : x[b] = base[b]}}
    \cup {[NullModel EXCEPT !.content = StringValue("bye")],
          [NullModel EXCEPT !.content = StringValue("hi"),
                            !.attachment_name = StringValue("a.txt")],
          [NullModel EXCEPT !.content = StringValue("hi"),
                            !.password = StringValue("pw")]}

\* The plans Update is called with.
UpdateConfigs ==
    {WithOptions(NoOptions), [NullModel EXCEPT !.content = StringValue("bye")]}

\* A handler called on a plan that was not made from a configuration.
NoConfig == [none |-> TRUE]

ImportIDs == {"p1", "nosuchpaste"}

\* ---- the state machine

Init ==
    /\ published = [called |-> FALSE, ResourceData |-> Nil, DataSourceData |-> Nil]
    /\ rData = Nil
    /\ dData = Nil
    /\ tfstate = Absent
    /\ remote = {}
    /\ nextId = 1
    /\ resp = Response("Init", <<>>, <<>>, NoConfig)

ProviderConfigureStep ==
    \E cfg \in ProviderConfigs, env \in Environments, decodeOK \in BOOLEAN :
        ProviderConfigure(cfg, env, decodeOK)

\* The framework hands the resource what the provider published; a caller
\* may hand it a value of another type.
ResourceConfigureStep ==
    \E given \in {published.ResourceData, WrongType} : ResourceConfigure(given)

\* Create as the framework calls it: on the plan made from a configuration.
ApplyCreate ==
    \E cfg \in Configs, ok \in BOOLEAN : Create(PlanFromConfig(cfg, Absent), cfg, ok)

\* Create called on a plan as given, unset options left null.
CreateFromPlan ==
    \E data \in Configs, ok \in BOOLEAN : Create(data, NoConfig, ok)

ReadStep == \E ok \in BOOLEAN, burn \in BOOLEAN : Read(ok, burn)

UpdateStep == \E cfg \in UpdateConfigs : Update(PlanFromConfig(cfg, tfstate))

ImportStateStep == \E id \in ImportIDs : ImportState(id)

PlanStep == \E cfg \in Configs : Plan(cfg)

UpstreamRemoveStep == \E p \in remote : UpstreamRemove(p)

Next ==
    \/ ProviderConfigureStep
    \/ ResourceConfigureStep
    \/ ApplyCreate
    \/ CreateFromPlan
    \/ ReadStep
    \/ UpdateStep
    \/ Delete
    \/ ImportStateStep
    \/ PlanStep
    \/ UpstreamRemoveStep

Spec == Init /\ [][Next]_vars

\* ---- the provider and the Configure handlers alone, over the wider
\* provider configurations

ProviderConfigureCredentialsStep ==
    \E cfg \in CredentialConfigs, env \in CredentialEnvironments,
       decodeOK \in BOOLEAN :
        ProviderConfigure(cfg, env, decodeOK)

\* The framework calls Configure with nil before the provider is configured
\* and with what the provider published after; a caller may hand a value of
\* another type.
ResourceConfigureAnyStep ==
    \E given \in {Nil, published.ResourceData, WrongType} : ResourceConfigure(given)

DataSourceConfigureAnyStep ==
    \E given \in {Nil, published.DataSourceData, WrongType} : DataSourceConfigure(given)

NextProvider ==
    \/ ProviderConfigureCredentialsStep
    \/ ResourceConfigureAnyStep
    \/ DataSourceConfigureAnyStep
    \/ ResourceSchemaCall
    \/ DataSourceSchemaCall

SpecProvider == Init /\ [][NextProvider]_vars

\* ---- a resource and a data source that share the published ProviderData

SharedProviderConfigureStep ==
    \E cfg \in SharedProviderConfigs, env \in Environments :
        ProviderConfigure(cfg, env, TRUE)

DataSourceConfigureStep ==
    \E given \in {published.DataSourceData, WrongType} : DataSourceConfigure(given)

SharedCreateStep ==
    \E data \in SharedConfigs, ok \in BOOLEAN : Create(data, NoConfig, ok)

SharedUpdateStep == \E cfg \in SharedConfigs : Update(PlanFromConfig(cfg, tfstate))

\* A fetch that fails returns no paste; only a confirmed read can burn one.
DataSourceReadStep ==
    \E data \in DataSourceConfigs :
        \/ DataSourceRead(data, FALSE, TextOnly, FALSE)
        \/ \E body \in PasteBodies,
              burn \in IF ValueBool(data.confirm_burn) THEN BOOLEAN ELSE {FALSE} :
                DataSourceRead(data, TRUE, body, burn)

NextShared ==
    \/ SharedProviderConfigureStep
    \/ ResourceConfigureStep
    \/ DataSourceConfigureStep
    \/ SharedCreateStep
    \/ ReadStep
    \/ SharedUpdateStep
    \/ Delete
    \/ ImportStateStep
    \/ DataSourceReadStep
    \/ UpstreamRemoveStep

SpecShared == Init /\ [][NextShared]_vars

\* ---- properties

\* The last call was a Create that succeeded: it called the client once,
\* without error, and wrote the resource to state.
CreateSucceeded ==
    /\ resp.op = "Create" /\ ~resp.panic /\ ~HasError(resp)
    /\ Len(resp.calls) = 1 /\ ~resp.calls[1].err

\* The last call was a resource Read whose fetch returned an error / a result.
ReadFetchFailed == resp.op = "Read" /\ Len(resp.calls) = 1 /\ resp.calls[1].err
ReadFetchSucceeded == resp.op = "Read" /\ Len(resp.calls) = 1 /\ ~resp.calls[1].err

CreateInput ==
    IF resp.req.config = NoConfig THEN resp.req.plan ELSE resp.req.config

\* C2: creating a paste resource with content "hi" and nothing else set (gzip
\* unset), under a provider whose default gzip is false and whose formatter
\* and expire defaults are the built-in ones, ends with stored gzip = false,
\* formatter = "plaintext" and expire = "1week".
C2_CreateUnderProviderGZipFalse ==
    ( /\ CreateSucceeded
      /\ CreateInput = WithOptions(NoOptions)
      /\ ~rData.GZip /\ rData.Formatter = "plaintext" /\ rData.Expire = "1week" )
    => /\ tfstate.data.gzip = BoolValue(FALSE)
       /\ tfstate.data.formatter = StringValue("plaintext")
       /\ tfstate.data.expire = StringValue("1week")

\* The defaults the resource schema is specified to declare.
ResourceLevelDefault ==
    [formatter |-> StringValue("plaintext"), expire |-> StringValue("1week"),
     open_discussion |-> BoolValue(FALSE), burn_after_reading |-> BoolValue(FALSE),
     gzip |-> BoolValue(TRUE)]

C4_ImmutableAfterCreate ==
    [][ /\ (tfstate.present /\ tfstate'.present) => tfstate' = tfstate
        /\ (resp'.op = "Plan" /\ resp'.req.inputsChanged)
              => resp'.req.action = "replace" ]_vars

\* C4 witness: a configuration differing from a resource Create stored was
\* planned, and the plan is a replacement.
C4_Witness ==
    /\ resp.op = "Plan" /\ resp.req.inputsChanged /\ resp.req.action = "replace"
    /\ tfstate.present /\ ~IsNull(tfstate.data.url)

\* C5: every Update reports the error "Update Not Supported", calls the
\* client not at all and leaves the state (and the server) as they were.
C5_UpdateAlwaysFails ==
    [][ (resp' # resp /\ resp'.op = "Update") =>
            /\ resp'.diags = <<"Update Not Supported">>
            /\ resp'.calls = <<>>
            /\ tfstate' = tfstate /\ remote' = remote /\ nextId' = nextId ]_vars

\* C5 witness: Update was called with a plan that differs from the resource
\* in state and failed.
C5_Witness ==
    /\ resp.op = "Update" /\ HasError(resp)
    /\ tfstate.present /\ resp.req.plan.content # tfstate.data.content

\* C6: whenever the fetch of a resource Read returns an error, the resource
\* is removed from state and the response holds no error diagnostic.
C6_ReadFailureRemovesQuietly ==
    ReadFetchFailed => (tfstate = Absent /\ resp.diags = <<>>)

\* C6 witness: the fetch failed although the server still holds the paste (a
\* transient failure), and the resource was removed.
C6_Witness ==
    /\ ReadFetchFailed /\ tfstate = Absent
    /\ PastesAt(resp.calls[1].url) # {}

\* C7: every client call of a resource Read is a ShowPaste with ConfirmBurn
\* false, whatever burn_after_reading the stored resource has.
C7_ReadNeverConfirmsBurn ==
    resp.op = "Read" =>
        \A i \in 1..Len(resp.calls) :
            resp.calls[i].fn = "ShowPaste" /\ ~resp.calls[i].options.ConfirmBurn

\* C7 witness: a burn-after-reading resource was read, unconfirmed.
C7_Witness ==
    /\ resp.op = "Read" /\ Len(resp.calls) = 1
    /\ resp.req.state.burn_after_reading = BoolValue(TRUE)
    /\ ~resp.calls[1].options.ConfirmBurn

\* C8: a Read that directly follows a successful Create and whose fetch
\* succeeds leaves in state exactly what Create stored, attribute for
\* attribute, content included.
C8_ReadAfterCreateIdempotent ==
    [][ (CreateSucceeded /\ ReadFetchSucceeded') => tfstate' = tfstate ]_vars

\* C8 witness: a resource Create stored was read with a successful fetch and
\* is in state with the content and every other attribute it had.
C8_Witness ==
    /\ ReadFetchSucceeded
    /\ tfstate.present /\ ~IsNull(tfstate.data.url)
    /\ tfstate.data = resp.req.state
    /\ tfstate.data.content = StringValue("hi")

\* C9: Delete calls the client not at all and reports no error; after it the
\* resource is absent from state and the server holds what it held.
C9_DeleteIsStateOnly ==
    [][ (resp' # resp /\ resp'.op = "Delete") =>
            /\ resp'.calls = <<>> /\ resp'.diags = <<>>
            /\ tfstate' = Absent /\ remote' = remote ]_vars

\* C9 witness: a created resource was deleted and its paste is still on the
\* server.
C9_Witness ==
    /\ resp.op = "Delete" /\ tfstate = Absent
    /\ \E p \in remote : p.id = ValueString(resp.req.state.id)

\* C10: a provider Configure whose configuration gives no host or an empty
\* one, with PASTEBIN_HOST unset, fails with exactly "Unknown Pastebin Host"
\* and publishes neither ResourceData nor DataSourceData (no client built).
C10_EmptyHostIsFatal ==
    ( /\ resp.op = "ProviderConfigure" /\ resp.req.decodeOK
      /\ ValueString(resp.req.config.Host) = ""
      /\ resp.req.env.PASTEBIN_HOST = "" )
    => /\ resp.diags = <<"Unknown Pastebin Host">>
       /\ published.ResourceData = Nil /\ published.DataSourceData = Nil

\* C10 witness: Configure ran with host = "" in the configuration and
\* PASTEBIN_HOST unset, and failed.
C10_Witness ==
    /\ resp.op = "ProviderConfigure"
    /\ resp.req.config.Host = StringValue("") /\ resp.req.env.PASTEBIN_HOST = ""
    /\ resp.diags = <<"Unknown Pastebin Host">>
    /\ published.called /\ published.ResourceData = Nil

\* ---- host and credentials resolution

\* What the request gives for a setting: the configuration value when the
\* configuration has one, the environment variable otherwise.
Given(configValue, envValue) ==
    IF configValue.state = "null" THEN envValue ELSE configValue.value

ProviderConfigureSucceeded ==
    /\ resp.op = "ProviderConfigure" /\ resp.diags = <<>>
    /\ published.ResourceData # Nil

\* C11: provider Configure takes host, username and password from the
\* configuration value whenever one is given and from PASTEBIN_HOST,
\* PASTEBIN_USERNAME, PASTEBIN_PASSWORD only otherwise: the client it builds
\* has that host as base URL and those credentials as basic auth, and a
\* configured host that is empty or unparseable fails Configure whatever
\* PASTEBIN_HOST holds.
C11_ConfigTakesPrecedenceOverEnv ==
    resp.op = "ProviderConfigure" =>
        LET cfg == resp.req.config
            env == resp.req.env
            host == Given(cfg.Host, env.PASTEBIN_HOST)
            username == Given(cfg.Username, env.PASTEBIN_USERNAME)
            password == Given(cfg.Password, env.PASTEBIN_PASSWORD)
        IN  /\ ProviderConfigureSucceeded =>
                /\ published.ResourceData.Client.BaseURL.String = host
                /\ published.ResourceData.Client.BasicAuth =
                       IF username = "" /\ password = "" THEN <<>>
                       ELSE <<username, password>>
            /\ (resp.req.decodeOK /\ cfg.Host = StringValue(""))
                  => resp.diags = <<"Unknown Pastebin Host">>
            /\ (resp.req.decodeOK /\ cfg.Host = StringValue("ht tp://invalid url"))
                  => resp.diags = <<"Invalid Pastebin Host">>

\* C11 witness: Configure succeeded with host and username given both in the
\* configuration and in the environment, and the password only in the
\* environment; the client has the configured host and username and the
\* environment's password.
C11_Witness ==
    /\ ProviderConfigureSucceeded
    /\ resp.req.config.Host = StringValue(ValidHost)
    /\ resp.req.env.PASTEBIN_HOST = "https://env.example.com"
    /\ resp.req.config.Username = StringValue("cfguser")
    /\ resp.req.env.PASTEBIN_USERNAME = "envuser"
    /\ resp.req.config.Password = StringNull
    /\ resp.req.env.PASTEBIN_PASSWORD = "envpass"
    /\ published.ResourceData.Client.BaseURL.String = ValidHost
    /\ published.ResourceData.Client.BasicAuth = <<"cfguser", "envpass">>

\* ---- host validation

\* C12: when the resolved host does not parse as a URL, provider Configure
\* reports "Invalid Pastebin Host" and publishes no ProviderData; a published
\* ProviderData holds a client whose base URL parses.
C12_UnparseableHostIsFatal ==
    /\ (published.ResourceData # Nil
          => ~UrlParse(published.ResourceData.Client.BaseURL.String).err)
    /\ (published.DataSourceData # Nil
          => ~UrlParse(published.DataSourceData.Client.BaseURL.String).err)
    /\ ( /\ resp.op = "ProviderConfigure" /\ resp.req.decodeOK
         /\ Given(resp.req.config.Host, resp.req.env.PASTEBIN_HOST) \in InvalidURLs )
       => /\ resp.diags = <<"Invalid Pastebin Host">>
          /\ published.ResourceData = Nil /\ published.DataSourceData = Nil

\* C12 witness: Configure ran with an unparseable host from the environment
\* and failed with "Invalid Pastebin Host", publishing nothing.
C12_Witness ==
    /\ resp.op = "ProviderConfigure" /\ resp.req.decodeOK
    /\ resp.req.config.Host = StringNull
    /\ resp.req.env.PASTEBIN_HOST = "ht tp://invalid url"
    /\ resp.diags = <<"Invalid Pastebin Host">>
    /\ published.called /\ published.ResourceData = Nil

\* ---- one ProviderData for resources and data sources

\* C13: after a successful provider Configure, resources and data sources
\* are handed the same ProviderData instance: the same address, and with it
\* the same client and the same defaults.
C13_OneInstancePublished ==
    (published.ResourceData # Nil \/ published.DataSourceData # Nil) =>
        /\ published.ResourceData # Nil /\ published.DataSourceData # Nil
        /\ published.ResourceData.addr = published.DataSourceData.addr
        /\ published.ResourceData.Client = published.DataSourceData.Client
        /\ published.ResourceData = published.DataSourceData

\* C13 witness: a resource and a data source were both configured with what
\* a successful provider Configure published, and hold the same instance.
C13_Witness ==
    /\ published.ResourceData # Nil
    /\ rData # Nil /\ dData # Nil
    /\ rData.addr = dData.addr
    /\ rData = published.ResourceData /\ dData = published.DataSourceData

\* ---- Create: client failure and stored state

CreateClientFailed ==
    /\ resp.op = "Create" /\ ~resp.panic
    /\ Len(resp.calls) = 1 /\ resp.calls[1].err

\* C15: a Create whose client call fails reports exactly one "Client Error"
\* diagnostic whose detail carries the client's error text, and changes
\* neither the Terraform state (no resource is recorded) nor anything else
\* the handler could write.
C15_CreateFailureLeavesStateUntouched ==
    [][(resp' # resp /\ CreateClientFailed')
        => /\ resp'.diags = <<"Client Error">>
           /\ resp'.calls[1].error # ""
           /\ resp'.details =
                  <<"Unable to create paste, got error: " \o resp'.calls[1].error>>
           /\ tfstate' = tfstate /\ tfstate' = Absent
           /\ remote' = remote /\ nextId' = nextId
           /\ rData' = rData /\ published' = published]_vars

\* C15 witness: a Create whose client call failed, after an earlier paste
\* was created and deleted from state; nothing is in state.
C15_Witness ==
    /\ CreateClientFailed
    /\ resp.diags = <<"Client Error">>
    /\ resp.details = <<"Unable to create paste, got error: unexpected status 500">>
    /\ tfstate = Absent /\ nextId = 2

\* C16: after a successful Create the state holds the id, URL and delete
\* token of the client's result, and its formatter, expire, open_discussion,
\* burn_after_reading and gzip are the values of the options sent in that
\* call (gzip true exactly when the call asked for GZip compression).
C16_CreateStoresResultAndSentOptions ==
    CreateSucceeded =>
        /\ tfstate # Absent
        /\ LET call == resp.calls[1]
               st == tfstate.data
           IN  /\ st.id = StringValue(call.result.PasteID)
               /\ st.url = StringValue(call.result.PasteURL.String)
               /\ st.delete_token = StringValue(call.result.DeleteToken)
               /\ st.formatter = StringValue(call.options.Formatter)
               /\ st.expire = StringValue(call.options.Expire)
               /\ st.open_discussion = BoolValue(call.options.OpenDiscussion)
               /\ st.burn_after_reading = BoolValue(call.options.BurnAfterReading)
               /\ st.gzip = BoolValue(call.options.Compress = "GZip")

\* C16 witness: Create succeeded on a plan that left the formatter null
\* under a provider default of "markdown"; the call was sent "markdown" and
\* the state holds it, with the id of the client's result.
C16_Witness ==
    /\ CreateSucceeded
    /\ resp.req.plan.formatter = StringNull
    /\ resp.calls[1].options.Formatter = "markdown"
    /\ tfstate # Absent
    /\ tfstate.data.formatter = StringValue("markdown")
    /\ tfstate.data.id = StringValue(resp.calls[1].result.PasteID)

\* ---- the shared ProviderData is read-only

\* C14: the ProviderData is published by provider Configure and by nothing
\* else, once; from then on no step changes what was published, and the
\* resource and the data source hold either nothing or exactly what was
\* published: once an instance holds it, no Configure, Create, Read, Update,
\* Delete or ImportState step, in any order, changes any of its fields.
C14_ProviderDataWrittenOnce ==
    [][/\ (published' # published)
            => (~published.called /\ resp'.op = "ProviderConfigure")
       /\ published.called => published' = published
       /\ (rData # Nil => rData' = rData)
       /\ (dData # Nil => dData' = dData)
       /\ (rData' # Nil => rData' = published'.ResourceData)
       /\ (dData' # Nil => dData' = published'.DataSourceData)]_vars

\* C14 witness: the resource and the data source hold the ProviderData a
\* provider Configure published with defaults of its own, a paste was
\* created with another formatter and is in state, and the data source has
\* read a paste; the ProviderData is still as published.
C14_Witness ==
    /\ published.ResourceData # Nil
    /\ published.ResourceData.Formatter = "plaintext"
    /\ rData = published.ResourceData /\ dData = published.DataSourceData
    /\ tfstate # Absent
    /\ tfstate.data.formatter = StringValue("markdown")
    /\ resp.op = "DataSourceRead" /\ resp.state.written

\* ---- data-source Read

DataSourceReadFailed ==
    /\ resp.op = "DataSourceRead" /\ ~resp.panic
    /\ \/ UrlParse(ValueString(resp.req.config.url)).err
       \/ Len(resp.calls) = 1 /\ resp.calls[1].err

DataSourceReadSucceeded ==
    /\ resp.op = "DataSourceRead" /\ ~resp.panic
    /\ Len(resp.calls) = 1 /\ ~resp.calls[1].err

\* C17: a data-source Read whose URL does not parse, or whose fetch fails,
\* reports exactly one "Client Error" diagnostic and writes no state; on a
\* parse failure the client is not called at all.
C17_DataSourceReadFailureWritesNothing ==
    DataSourceReadFailed =>
        /\ resp.diags = <<"Client Error">>
        /\ Len(resp.details) = 1
        /\ ~resp.state.written
        /\ (UrlParse(ValueString(resp.req.config.url)).err => resp.calls = <<>>)
        /\ (resp.calls # <<>> =>
               resp.details = <<"Unable to read paste: " \o resp.calls[1].error>>)

\* C17 witness: a configured data source read a URL the server holds no
\* paste for; the fetch failed, "Client Error" was reported, no state written.
C17_Witness ==
    /\ DataSourceReadFailed
    /\ dData # Nil
    /\ Len(resp.calls) = 1 /\ resp.calls[1].error = "paste not found"
    /\ resp.diags = <<"Client Error">>
    /\ ~resp.state.written

\* C18 as stated: a successful data-source Read writes id, content and
\* comment count of the client's result together with its attachment name,
\* its MIME type and the base64 encoding of its attachment bytes, whatever
\* the result holds.
C18_ReadStoresAttachmentAlways ==
    DataSourceReadSucceeded =>
        LET result == resp.calls[1].result IN
        /\ resp.state.written
        /\ resp.state.data.id = StringValue(result.PasteID)
        /\ resp.state.data.content = StringValue(result.Paste.Data)
        /\ resp.state.data.comment_count = Int64Value(result.CommentCount)
        /\ resp.state.data.attachment_name = StringValue(result.Paste.AttachmentName)
        /\ resp.state.data.mime_type = StringValue(result.Paste.MimeType)
        /\ resp.state.data.attachment_data =
               StringValue(EncodeToString(result.Paste.Attachement))

\* C18, amended: a successful data-source Read writes id, content and
\* comment count of the client's result, reports nothing, and keeps url,
\* password and confirm_burn as configured; attachment name and MIME type
\* are those of the result when the result has an attachment name and null
\* otherwise; attachment data is the padded standard base64 of the
\* attachment bytes when the result has an attachment name and at least one
\* byte, and null otherwise.
C18_ReadStoresResult ==
    DataSourceReadSucceeded =>
        LET result == resp.calls[1].result
            named == result.Paste.AttachmentName # ""
            bytes == result.Paste.Attachement
            st == resp.state.data
        IN
        /\ resp.diags = <<>>
        /\ resp.state.written
        /\ st.id = StringValue(result.PasteID)
        /\ st.content = StringValue(result.Paste.Data)
        /\ st.comment_count = Int64Value(result.CommentCount)
        /\ st.url = resp.req.config.url
        /\ st.password = resp.req.config.password
        /\ st.confirm_burn = resp.req.config.confirm_burn
        /\ st.attachment_name =
               IF named THEN StringValue(result.Paste.AttachmentName) ELSE StringNull
        /\ st.mime_type =
               IF named THEN StringValue(result.Paste.MimeType) ELSE StringNull
        /\ st.attachment_data =
               IF named /\ bytes # <<>>
               THEN StringValue(EncodeToString(bytes)) ELSE StringNull
        /\ (named /\ bytes = <<77>>) => st.attachment_data = StringValue("TQ==")
        /\ (named /\ bytes = <<77, 97>>) => st.attachment_data = StringValue("TWE=")
        /\ (named /\ bytes = <<77, 97, 110>>) => st.attachment_data = StringValue("TWFu")
        /\ (named /\ bytes = <<255, 254, 253, 0>>)
              => st.attachment_data = StringValue("//79AA==")

\* C18 witness: a data-source Read fetched a paste with the attachment
\* "a.txt" of four bytes and wrote its name, MIME type and base64 data.
C18_Witness ==
    /\ DataSourceReadSucceeded
    /\ resp.calls[1].result.Paste.Attachement = <<255, 254, 253, 0>>
    /\ resp.state.written
    /\ resp.state.data.attachment_name = StringValue("a.txt")
    /\ resp.state.data.mime_type = StringValue("text/plain")
    /\ resp.state.data.attachment_data = StringValue("//79AA==")
    /\ resp.state.data.comment_count = Int64Value(3)

\* ---- resource and data-source Configure

IsWrongType(given) == given # Nil /\ given.kind # "ProviderData"
IsProviderData(given) == given # Nil /\ given.kind = "ProviderData"

\* C19: a resource Configure given provider data that is no *ProviderData
\* reports "Unexpected Resource Configure Type", a data-source Configure
\* "Unexpected Data Source Configure Type", and either leaves the
\* providerData its instance held before the call as it was.
C19_WrongTypeRejected ==
    [][/\ (resp'.op = "ResourceConfigure" /\ IsWrongType(resp'.req.ProviderData))
            => /\ resp'.diags = <<"Unexpected Resource Configure Type">>
               /\ rData' = rData
       /\ (resp'.op = "DataSourceConfigure" /\ IsWrongType(resp'.req.ProviderData))
            => /\ resp'.diags = <<"Unexpected Data Source Configure Type">>
               /\ dData' = dData]_vars

\* C19 witness: a resource that already held the published ProviderData was
\* configured with a value of another type; the error was reported and the
\* resource still holds the ProviderData.
C19_Witness ==
    /\ resp.op = "ResourceConfigure"
    /\ resp.req.ProviderData = WrongType
    /\ resp.diags = <<"Unexpected Resource Configure Type">>
    /\ rData # Nil /\ rData = published.ResourceData

\* C20: a resource or data-source Configure given nil reports nothing and
\* leaves providerData as it was (unset on a fresh instance); given a
\* *ProviderData it reports nothing and holds that very instance afterwards.
C20_NilAndWellTypedAccepted ==
    [][/\ (resp'.op = "ResourceConfigure" /\ resp'.req.ProviderData = Nil)
            => (resp'.diags = <<>> /\ rData' = rData)
       /\ (resp'.op = "ResourceConfigure" /\ IsProviderData(resp'.req.ProviderData))
            => /\ resp'.diags = <<>>
               /\ rData' = resp'.req.ProviderData
               /\ rData'.addr = resp'.req.ProviderData.addr
       /\ (resp'.op = "DataSourceConfigure" /\ resp'.req.ProviderData = Nil)
            => (resp'.diags = <<>> /\ dData' = dData)
       /\ (resp'.op = "DataSourceConfigure" /\ IsProviderData(resp'.req.ProviderData))
            => /\ resp'.diags = <<>>
               /\ dData' = resp'.req.ProviderData
               /\ dData'.addr = resp'.req.ProviderData.addr]_vars

\* C20 witness: a data source was configured with the ProviderData the
\* provider published, reported nothing and holds it, while the resource,
\* configured with nil at most, holds none.
C20_Witness ==
    /\ resp.op = "DataSourceConfigure"
    /\ IsProviderData(resp.req.ProviderData)
    /\ resp.diags = <<>>
    /\ dData = published.DataSourceData /\ dData.addr = ProviderDataAddr
    /\ rData = Nil

\* ---- schema invariants

ResourceAttributeNames ==
    {"id", "content", "attachment_name", "formatter", "expire", "password",
     "open_discussion", "burn_after_reading", "gzip", "url", "delete_token"}
DataSourceAttributeNames ==
    {"id", "url", "password", "confirm_burn", "content", "attachment_name",
     "attachment_data", "mime_type", "comment_count"}
DataSourceOutputs ==
    {"id", "content", "attachment_name", "attachment_data", "mime_type",
     "comment_count"}

\* C21: the schema the resource returns has exactly the eleven attributes
\* listed, content required, id, url and delete_token computed, password and
\* delete_token sensitive, and formatter, expire, open_discussion,
\* burn_after_reading and gzip both optional and computed; the schema the
\* data source returns has exactly the nine attributes listed, url required,
\* every output computed, password and attachment_data sensitive.
C21_SchemaInvariants ==
    /\ resp.op = "ResourceSchema" =>
          /\ DOMAIN resp.schema = ResourceAttributeNames
          /\ resp.schema.content.Required
          /\ \A a \in {"id", "url", "delete_token"} : resp.schema[a].Computed
          /\ resp.schema.password.Sensitive /\ resp.schema.delete_token.Sensitive
          /\ \A a \in {"formatter", "expire", "open_discussion",
                        "burn_after_reading", "gzip"} :
                resp.schema[a].Optional /\ resp.schema[a].Computed
    /\ resp.op = "DataSourceSchema" =>
          /\ DOMAIN resp.schema = DataSourceAttributeNames
          /\ resp.schema.url.Required
          /\ \A a \in DataSourceOutputs : resp.schema[a].Computed
          /\ resp.schema.password.Sensitive
          /\ resp.schema.attachment_data.Sensitive

\* C21 witness: the resource returned its schema, in which content is
\* required, gzip optional and computed, and delete_token sensitive.
C21_Witness ==
    /\ resp.op = "ResourceSchema"
    /\ resp.schema.content.Required
    /\ resp.schema.gzip.Optional /\ resp.schema.gzip.Computed
    /\ resp.schema.delete_token.Sensitive /\ resp.schema.password.Sensitive

\* ---- the resource lifecycle

\* The resource is in state as Create leaves it: with a URL and a delete token.
Created ==
    /\ tfstate # Absent
    /\ ~IsNull(tfstate.data.url) /\ ~IsNull(tfstate.data.delete_token)

\* C22: a created resource is never changed in place: every step from
\* 'created' leaves the state as it is or removes the resource; it is
\* removed only by Delete or by a Read whose fetch failed, and those always
\* remove it; a Read whose fetch succeeded and an Update (which always
\* fails) leave the state unchanged; and the resource becomes 'created'
\* only from absent, through a successful Create.
C22_NoInPlaceTransitions ==
    [][/\ Created =>
            /\ (tfstate' = tfstate \/ tfstate' = Absent)
            /\ (tfstate' = Absent) => (resp'.op = "Delete" \/ ReadFetchFailed')
            /\ (resp' # resp /\ ReadFetchFailed') => tfstate' = Absent
            /\ (resp' # resp /\ resp'.op = "Delete") => tfstate' = Absent
            /\ (resp' # resp /\ ReadFetchSucceeded') => tfstate' = tfstate
            /\ (resp' # resp /\ resp'.op = "Update")
                  => (HasError(resp') /\ tfstate' = tfstate)
       /\ (~Created /\ Created') => (tfstate = Absent /\ CreateSucceeded')]_vars

\* C22 witness: a created resource was read successfully and is still in
\* state as created, after an earlier resource was created and deleted.
C22_Witness ==
    /\ Created
    /\ ReadFetchSucceeded
    /\ tfstate.data.id = StringValue("p2")
    /\ resp.req.state = tfstate.data

\* ---- the missing-host error

\* C23 as stated: provider Configure does not report "Unknown Pastebin
\* Host" whenever the configuration host or PASTEBIN_HOST holds a non-empty
\* value.
C23_NoMissingHostWhenAnySourceSet ==
    ( /\ resp.op = "ProviderConfigure"
      /\ \/ ValueString(resp.req.config.Host) # ""
         \/ resp.req.env.PASTEBIN_HOST # "" )
    => resp.diags # <<"Unknown Pastebin Host">>

\* C23, amended: provider Configure reports "Unknown Pastebin Host" exactly
\* when the configuration decodes and the host it resolves is empty, the
\* resolved host being the configuration value when the configuration has
\* one (the empty string included) and PASTEBIN_HOST only when it has none:
\* a non-empty PASTEBIN_HOST does not save an explicitly empty host.
C23_MissingHostIffResolvedHostEmpty ==
    resp.op = "ProviderConfigure" =>
        /\ (resp.diags = <<"Unknown Pastebin Host">>)
             <=> ( /\ resp.req.decodeOK
                   /\ Given(resp.req.config.Host, resp.req.env.PASTEBIN_HOST) = "" )
        /\ ( /\ resp.req.decodeOK /\ resp.req.config.Host = StringValue("")
             /\ resp.req.env.PASTEBIN_HOST # "" )
           => resp.diags = <<"Unknown Pastebin Host">>

\* C23 witness: Configure ran with host = "" in the configuration while
\* PASTEBIN_HOST held a good URL, and failed with "Unknown Pastebin Host".
C23_Witness ==
    /\ resp.op = "ProviderConfigure" /\ resp.req.decodeOK
    /\ resp.req.config.Host = StringValue("")
    /\ resp.req.env.PASTEBIN_HOST = "https://env.example.com"
    /\ resp.diags = <<"Unknown Pastebin Host">>
    /\ published.ResourceData = Nil

\* ---- gzip and the compression algorithm

CreateCalledClient ==
    resp.op = "Create" /\ ~resp.panic /\ Len(resp.calls) = 1

\* C24: the compression algorithm Create sends to the client is GZip
\* exactly when the effective gzip flag is true and None exactly when it is
\* false, the effective flag being the plan's gzip when the plan has one and
\* the provider's default otherwise; this holds whether or not the call
\* then succeeds.
C24_GZipSelectsCompression ==
    CreateCalledClient =>
        LET plan == resp.req.plan
            gzip == IF plan.gzip.state = "null" THEN rData.GZip ELSE plan.gzip.value
            sent == resp.calls[1].options.Compress
        IN  /\ sent \in {"GZip", "None"}
            /\ (sent = "GZip") <=> gzip
            /\ (sent = "None") <=> ~gzip

\* C24 witness: Create was called with gzip = false in the plan under a
\* provider whose default is gzip = true, and sent no compression.
C24_Witness ==
    /\ CreateCalledClient
    /\ resp.req.plan.gzip = BoolValue(FALSE)
    /\ rData.GZip = TRUE
    /\ resp.calls[1].options.Compress = "None"

\* ---- no retries, no network use at configure time

\* C25: provider Configure and the two Configure handlers make no client
\* call and leave the server as it is; a Create, a resource Read and a
\* data-source Read make at most one client call each, and a call that
\* failed is the only call of its invocation.
C25_AtMostOneClientCall ==
    [][/\ (resp'.op \in {"ProviderConfigure", "ResourceConfigure",
                          "DataSourceConfigure"})
            => /\ resp'.calls = <<>>
               /\ (resp' # resp) => (remote' = remote /\ nextId' = nextId)
       /\ (resp'.op \in {"Create", "Read", "DataSourceRead"})
            => /\ Len(resp'.calls) <= 1
               /\ \A i \in 1..Len(resp'.calls) :
                     resp'.calls[i].err => Len(resp'.calls) = 1]_vars

\* C25 witness: a Create on a configured resource made its one call, which
\* failed, and no paste is on the server.
C25_Witness ==
    /\ resp.op = "Create" /\ ~resp.panic
    /\ rData # Nil
    /\ Len(resp.calls) = 1 /\ resp.calls[1].fn = "CreatePaste" /\ resp.calls[1].err
    /\ remote = {} /\ nextId = 1

\* ---- ImportState

\* C26: an ImportState step makes no client call, reports no error, leaves
\* the server untouched and puts the resource in state with id equal to the
\* import identifier and every other attribute null, whatever the
\* identifier and whether or not the server holds such a paste.
C26_ImportIsPassthrough ==
    [][(resp' # resp /\ resp'.op = "ImportState")
        => /\ resp'.calls = <<>> /\ resp'.diags = <<>> /\ ~resp'.panic
           /\ tfstate' # Absent
           /\ tfstate'.data.id = StringValue(resp'.req.ID)
           /\ \A a \in ResourceAttributes \ {"id"} : IsNull(tfstate'.data[a])
           /\ remote' = remote /\ nextId' = nextId]_vars

\* C26 witness: an identifier no paste has was imported while the server
\* holds another paste; the resource is in state with that id alone.
C26_Witness ==
    /\ resp.op = "ImportState" /\ resp.req.ID = "nosuchpaste"
    /\ resp.diags = <<>> /\ resp.calls = <<>>
    /\ remote # {} /\ \A p \in remote : p.id # "nosuchpaste"
    /\ tfstate # Absent
    /\ tfstate.data.id = StringValue("nosuchpaste")
    /\ IsNull(tfstate.data.url)

\* ---- providerData at the client call

\* C27: whenever a Create, a resource Read or a data-source Read has come
\* to the point of its client call (Create always does, the two Reads once
\* the URL has parsed), the providerData of its instance is set, so that the
\* call is made and the handler does not panic on a nil providerData.
C27_ProviderDataSetAtClientCall ==
    /\ (resp.op = "Create") => (rData # Nil /\ ~resp.panic)
    /\ (resp.op = "Read" /\ ~UrlParse(ValueString(resp.req.state.url)).err)
          => (rData # Nil /\ ~resp.panic)
    /\ (resp.op = "DataSourceRead" /\ ~UrlParse(ValueString(resp.req.config.url)).err)
          => (dData # Nil /\ ~resp.panic)

\* ---- Read after ImportState

\* The resource is in state as ImportState leaves it: without a URL.
Imported == tfstate # Absent /\ IsNull(tfstate.data.url)

\* C28: a resource is in state without a URL only through ImportState, and
\* while it is, no step gives it a url, a delete_token or a content; a Read
\* of it that calls the client fetches the empty URL, not one made from the
\* id, and either leaves the state as it is or, when the fetch fails,
\* removes the resource.
C28_ReadAfterImportUsesStoredURL ==
    [][/\ (Imported' /\ ~Imported) => resp'.op = "ImportState"
       /\ Imported' =>
            /\ IsNull(tfstate'.data.url)
            /\ IsNull(tfstate'.data.delete_token)
            /\ IsNull(tfstate'.data.content)
       /\ Imported => (tfstate' = tfstate \/ tfstate' = Absent)
       /\ (Imported /\ resp' # resp /\ resp'.op = "Read" /\ Len(resp'.calls) = 1)
            => /\ resp'.calls[1].url.String = ""
               /\ resp'.calls[1].err => tfstate' = Absent
               /\ ~resp'.calls[1].err => tfstate' = tfstate]_vars

\* C28 witness: the id of a paste the server still holds was imported and
\* then read; the fetch went to the empty URL, failed, and the resource was
\* removed from state.
C28_Witness ==
    /\ resp.op = "Read" /\ Len(resp.calls) = 1
    /\ resp.req.state.id = StringValue("p1") /\ IsNull(resp.req.state.url)
    /\ resp.calls[1].url.String = "" /\ resp.calls[1].err
    /\ \E p \in remote : p.id = "p1"
    /\ tfstate = Absent

\* ---- publishing and error diagnostics

\* C29: provider Configure leaves ResourceData and DataSourceData both set
\* when it added no error diagnostic and both unset when it added one; it
\* adds one exactly when the configuration does not decode, the resolved
\* host is empty or does not parse, or extra_headers has an element that
\* does not convert to a string.
C29_PublishedIffNoError ==
    resp.op = "ProviderConfigure" =>
        LET cfg == resp.req.config
            host == Given(cfg.Host, resp.req.env.PASTEBIN_HOST)
            badHeaders == \E e \in cfg.ExtraHeaders.elements : e.v.state = "null"
            fails == \/ ~resp.req.decodeOK
                     \/ host = ""
                     \/ host \in InvalidURLs
                     \/ badHeaders
        IN  /\ fails <=> (resp.diags # <<>>)
            /\ (resp.diags = <<>>)
                 => (published.ResourceData # Nil /\ published.DataSourceData # Nil)
            /\ (resp.diags # <<>>)
                 => (published.ResourceData = Nil /\ published.DataSourceData = Nil)

\* C29 witness: Configure ran with a good host and an extra header whose
\* value is null; the conversion error was reported and nothing published.
C29_Witness ==
    /\ resp.op = "ProviderConfigure" /\ resp.req.decodeOK
    /\ resp.req.config.Host = StringValue(ValidHost)
    /\ resp.req.config.ExtraHeaders.state = "known"
    /\ \E e \in resp.req.config.ExtraHeaders.elements : IsNull(e.v)
    /\ resp.diags = <<"Value Conversion Error">>
    /\ published.called
    /\ published.ResourceData = Nil /\ published.DataSourceData = Nil

\* ---- formatter and expire are never stored empty

\* C30: a ProviderData held by the resource has a non-empty formatter and a
\* non-empty expire, and after a successful Create the stored formatter and
\* expire are known and not the empty string: the plan's value when it is
\* not empty, the provider's otherwise.
C30_StoredFormatterExpireNonEmpty ==
    /\ rData # Nil => (rData.Formatter # "" /\ rData.Expire # "")
    /\ (CreateSucceeded /\ tfstate # Absent) =>
          /\ tfstate.data.formatter.state = "known"
          /\ tfstate.data.formatter.value # ""
          /\ tfstate.data.expire.state = "known"
          /\ tfstate.data.expire.value # ""
          /\ tfstate.data.formatter.value
                \in {resp.req.plan.formatter.value, rData.Formatter}
          /\ tfstate.data.expire.value
                \in {resp.req.plan.expire.value, rData.Expire}

\* C30 witness: Create succeeded on a plan with formatter = "" and expire
\* null under a provider without defaults of its own; "plaintext" and
\* "1week" are stored.
C30_Witness ==
    /\ CreateSucceeded /\ tfstate # Absent
    /\ resp.req.plan.formatter = StringValue("")
    /\ resp.req.plan.expire = StringNull
    /\ tfstate.data.formatter = StringValue("plaintext")
    /\ tfstate.data.expire = StringValue("1week")

====
